---------------------------- MODULE Spec2Model ----------------------------
(***************************************************************************)
(* Bulk e-mail sender: the dispatcher worker (src/src/email.rs send_bulk), *)
(* the progress channel (std::sync::mpsc) and the application state that   *)
(* starts sends and polls their progress (src/src/app.rs EmailApp).        *)
(*                                                                         *)
(* The specifications, over the same variables:                            *)
(*   SpecBulk  one send_bulk call over every snapshot, configuration and   *)
(*             environment of the bounded sets, observed by poll_progress  *)
(*             (SpecBulkFair: with the thread scheduled; SpecDrop: with an *)
(*             observer that may drop the Receiver);                       *)
(*   Spec      the application: frames of EmailApp::update (poll_progress, *)
(*             then at most one user input), with the workers it spawns;   *)
(*   SpecText  one call of render_text, extract_placeholders,              *)
(*             strip_html_tags or build_message.                           *)
(***************************************************************************)
EXTENDS Integers, Sequences, FiniteSets, TLC

(***************************************************************************)
(* Bounds of the model.                                                    *)
(***************************************************************************)
MaxBatch      == 3      \* recipients of the snapshot of SpecBulk
MaxRecipients == 2      \* recipients of one template in the editor
MaxTemplates  == 2      \* templates alive at once
MaxAttachments == 1     \* attachments of one template in the editor
MaxInputs     == 6      \* widgets operated in one run
MaxWorkers    == 2      \* dispatcher threads alive at once
MaxText       == 3      \* characters of a text given to a text function
MaxArgs       == 2      \* entries of a recipient's argument map
MaxParts      == 2      \* attachment paths of a message built on its own
MaxBody       == 28     \* characters of a body the toolbar still appends to

(***************************************************************************)
(* Data.  Addresses are strings; the well-formed ones parse, the others do *)
(* not (lettre's Address::from_str).  Subjects, bodies, placeholder keys   *)
(* and argument values are sequences of characters.                        *)
(***************************************************************************)
ValidAddresses == {"ann@x.org", "me@x.org"}
Emails         == {"ann@x.org", "not-an-address"}
Usernames      == {"me@x.org", "me-at-x"}
Subjects       == {<< >>, <<"H", "i", " ", "{", "n", "}">>}
Bodies         == {<< >>, <<"<", "b", ">", "H", "i", "<", "/", "b", ">">>}
Paths          == {<<"docs", "cv.pdf">>}
NoPaths        == << >>
None           == -1
Workers        == 1..MaxWorkers

\* What the SMTP relay side does during one send_bulk: nothing wrong, TLS
\* parameters that cannot be built, a host that is no relay, credentials the
\* relay rejects, a network that is down.
Faults == {"none", "tls_init", "bad_host", "auth_rejected", "unreachable"}

\* What the user types into a placeholder field
ArgValues == {<< >>, <<"A", "n", "n">>}

\* template.rs Recipient.  args is the HashMap as the sequence of its
\* <<key, value>> entries in the order it iterates them.
Recipient(e, a) == [email |-> e, args |-> a]

\* template.rs EmailTemplate::new
NewTemplate(id, name) ==
    [id |-> id, name |-> name, subject |-> << >>, body |-> << >>,
     attachment_paths |-> NoPaths, recipients |-> << >>]

\* config.rs SmtpConfig (the fields the dispatcher reads)
Configs == [username : Usernames]

RECURSIVE SeqsUpTo(_, _)
SeqsUpTo(S, n) ==
    IF n = 0 THEN {<< >>}
    ELSE LET shorter == SeqsUpTo(S, n - 1)
         IN  shorter \cup {Append(s, x) : s \in {t \in shorter : Len(t) = n - 1}, x \in S}

\* The names typed for a new template, and those typed over a name
Names       == {"news"}
EditedNames == {"news", "offers"}

(***************************************************************************)
(* SendProgress (email.rs 8-13)                                            *)
(***************************************************************************)
Sent(i, e)      == [type |-> "Sent", index |-> i, email |-> e]
Failed(i, e, x) == [type |-> "Failed", index |-> i, email |-> e, error |-> x]
Done            == [type |-> "Done"]

(***************************************************************************)
(* State.                                                                  *)
(*   EmailApp fields (app.rs 8-30): config, templates, selected_template,  *)
(*   progress_rx, is_sending, status_log, show_confirm_dialog.             *)
(*   phase: where the current frame of EmailApp::update stands.            *)
(*   worker[w]: the thread spawned by send_bulk, with the values moved     *)
(*   into its closure; chan[w]: the mpsc queue between its Sender and the  *)
(*   Receiver that progress_rx holds (progress_rx = w).                    *)
(*   hist[w]: what worker w has done so far (history, read by no action).  *)
(*   created: how many templates were created (the next template id);     *)
(*   inputs: how many widgets the user has operated (it bounds the run).   *)
(*   call, ret: one call of a function of the message builder or of the    *)
(*   template renderer and what it returned (SpecText only).               *)
(*   asked: the id of the template that was selected when Send to All was  *)
(*   pressed, while the confirmation it opened is pending, else 0          *)
(*   (history, read by no action).                                         *)
(*   new_recipient_args: the map behind the placeholder fields of the Add  *)
(*   Recipient group (app.rs 15).                                          *)
(***************************************************************************)
VARIABLES config, templates, selected_template, progress_rx, is_sending,
          status_log, show_confirm_dialog, phase,
          worker, chan, hist, created, inputs, call, ret, asked,
          new_recipient_args

appVars    == <<config, templates, selected_template, progress_rx, is_sending,
                status_log, show_confirm_dialog, phase, created, inputs, call, ret, asked,
                new_recipient_args>>
workerVars == <<worker, chan, hist>>
vars       == <<config, templates, selected_template, progress_rx, is_sending,
                status_log, show_confirm_dialog, phase,
                worker, chan, hist, created, inputs, call, ret, asked,
                new_recipient_args>>

\* No function call is under way; a call that has not returned
NoCall == [fn |-> "none"]
NoRet  == [returned |-> FALSE]

IdleWorker ==
    [pc |-> "idle", i |-> 0, fault |-> "none",
     config |-> [username |-> ""], template |-> NewTemplate(0, "")]

NoHistory ==
    [emitted |-> << >>, attempts |-> << >>, delays |-> << >>, transports |-> 0,
     started |-> NewTemplate(0, "")]

(***************************************************************************)
(* Message Builder (email.rs 15-92)                                        *)
(***************************************************************************)
\* str::parse::<Mailbox>() / ::<Address>() of lettre
AddressParses(s) == s \in ValidAddresses

\* str::replace(from, to) with a non-empty pattern: the matches of `from` are
\* found from left to right in the receiver, without overlap, and each is
\* replaced by `to`; what was put in is not searched again by this call.
RECURSIVE replace(_, _, _)
replace(s, from, to) ==
    IF Len(s) < Len(from) THEN s
    ELSE IF SubSeq(s, 1, Len(from)) = from
         THEN to \o replace(SubSeq(s, Len(from) + 1, Len(s)), from, to)
         ELSE <<Head(s)>> \o replace(Tail(s), from, to)

\* (mutation) the pattern searched for is the bare key
PlaceholderBare(key) == key

\* template.rs 38: format!("{{{}}}", key)
Placeholder(key) == <<"{">> \o key \o <<"}">>

\* template.rs 36-41: the loop over the entries of the map, each replace
\* working on the result of the one before.  entries are the <<key, value>>
\* pairs of recipient.args in the order the HashMap iterates them.
RECURSIVE RenderLoop(_, _)
RenderLoop(result, entries) ==
    IF entries = << >> THEN result
    ELSE RenderLoop(replace(result, Placeholder(entries[1][1]), entries[1][2]),
                    Tail(entries))

\* template.rs 35-42
render_text(text, recipient) == RenderLoop(text, recipient.args)

\* template.rs 44-46
render_subject(template, recipient) == render_text(template.subject, recipient)

\* template.rs 48-50
render_body(template, recipient) == render_text(template.body, recipient)

\* (mutation) no key is taken for one already found
ContainsNever(seq, x) == FALSE

\* Vec::contains
Contains(seq, x) == \E k \in 1..Len(seq) : seq[k] = x

\* template.rs 59-65: the characters after a `{` are taken up to the next `}`
\* or, when there is none, up to the end of the input
RECURSIVE ScanKey(_, _)
ScanKey(chars, key) ==
    IF chars = << >> THEN [key |-> key, rest |-> << >>]
    ELSE IF Head(chars) = "}" THEN [key |-> key, rest |-> Tail(chars)]
    ELSE ScanKey(Tail(chars), Append(key, Head(chars)))

\* template.rs 57-70: `while let Some(c) = chars.next()`
RECURSIVE ScanPlaceholders(_, _)
ScanPlaceholders(chars, placeholders) ==
    IF chars = << >> THEN placeholders
    ELSE IF Head(chars) = "{"
         THEN LET k == ScanKey(Tail(chars), << >>)
              IN  ScanPlaceholders(k.rest,
                      IF k.key # << >> /\ ~Contains(placeholders, k.key)
                      THEN Append(placeholders, k.key)
                      ELSE placeholders)
         ELSE ScanPlaceholders(Tail(chars), placeholders)

\* template.rs 53-72: combined = format!("{} {}", self.subject, self.body)
extract_placeholders(template) ==
    ScanPlaceholders(template.subject \o <<" ">> \o template.body, << >>)

\* email.rs 184-191: the loop over html.chars() with its inside_tag flag
RECURSIVE StripLoop(_, _, _)
StripLoop(chars, inside_tag, result) ==
    IF chars = << >> THEN result
    ELSE LET c == Head(chars)
         IN  IF c = "<" THEN StripLoop(Tail(chars), TRUE, result)
             ELSE IF c = ">" THEN StripLoop(Tail(chars), FALSE, result)
             ELSE IF ~inside_tag THEN StripLoop(Tail(chars), inside_tag, Append(result, c))
             ELSE StripLoop(Tail(chars), inside_tag, result)

\* email.rs 181-193
strip_html_tags(html) == StripLoop(html, FALSE, << >>)

\* email.rs 44-49: the wrapper around the rendered body, each half as one
\* element of the character sequence
HtmlOpen  ==
    <<"<!DOCTYPE html><html><head><meta charset=\"UTF-8\"></head><body style=\"font-family: Arial, sans-serif; font-size: 14px; color: #222;\">">>
HtmlClose == <<"</body></html>">>

\* email.rs 55-65: MultiPart::alternative() of the plain and the HTML part
Alternative(rendered_body) ==
    [kind  |-> "alternative",
     parts |-> << [content_type |-> "text/plain",
                   body |-> strip_html_tags(rendered_body)],
                  [content_type |-> "text/html",
                   body |-> HtmlOpen
                            \o replace(rendered_body, <<"\n">>, <<"<", "b", "r", ">">>)
                            \o HtmlClose] >>]

\* email.rs 75-78: Path::file_name (the last component, none for an empty
\* path or one that ends in `..`) with the fallback name
FileName(path) ==
    IF path = << >> \/ path[Len(path)] = ".." THEN "attachment" ELSE path[Len(path)]

\* (mutation) every path gets a part, readable or not
RECURSIVE AttachmentPartsAll(_, _)
AttachmentPartsAll(paths, fs) ==
    IF paths = << >> THEN << >>
    ELSE << [content_type |-> "application/octet-stream",
             filename |-> FileName(Head(paths)), file |-> Head(paths)] >>
         \o AttachmentPartsAll(Tail(paths), fs)

\* email.rs 73-88: one part per path that std::fs::read can read.  fs is the
\* set of paths the file system lets the process read at that moment.
RECURSIVE AttachmentParts(_, _)
AttachmentParts(paths, fs) ==
    IF paths = << >> THEN << >>
    ELSE IF Head(paths) \in fs
         THEN << [content_type |-> "application/octet-stream",
                  filename |-> FileName(Head(paths)), file |-> Head(paths)] >>
              \o AttachmentParts(Tail(paths), fs)
         ELSE AttachmentParts(Tail(paths), fs)

\* email.rs 67-91
MessageBody(template, rendered_body, fs) ==
    IF template.attachment_paths = << >>
    THEN Alternative(rendered_body)
    ELSE [kind  |-> "mixed",
          parts |-> <<Alternative(rendered_body)>>
                    \o AttachmentParts(template.attachment_paths, fs)]

\* email.rs 15-92: From "{from_name} <{username}>", Reply-To username and To
\* recipient.email are parsed in this order; the first `?` that fails returns
\* lettre's AddressError, whose text is the same for the three fields.  The
\* Message-ID header (a fresh UUID and the clock) is left out.
build_message(cfg, template, recipient, fs) ==
    IF ~AddressParses(cfg.username) THEN
        [ok |-> FALSE, error |-> "Missing domain or user"]
    ELSE IF ~AddressParses(recipient.email) THEN
        [ok |-> FALSE, error |-> "Missing domain or user"]
    ELSE
        [ok |-> TRUE,
         message |-> [from |-> cfg.username, reply_to |-> cfg.username,
                      to |-> recipient.email,
                      subject |-> render_subject(template, recipient),
                      body |-> MessageBody(template, render_body(template, recipient), fs)]]

(***************************************************************************)
(* Transport (email.rs 94-103 and the transport.send call at 139).         *)
(* SmtpTransport::relay(host)? builds the TLS parameters for host and      *)
(* build() returns a transport that has not connected yet: the connection  *)
(* (TCP, TLS, EHLO, AUTH) is made by transport.send.  create_transport     *)
(* therefore fails only when the TLS parameters cannot be built; whether a *)
(* malformed host name is refused there or at connect time depends on the  *)
(* TLS backend, so both outcomes are possible for it.                      *)
(***************************************************************************)
create_transport(fault) ==
    CASE fault = "tls_init" -> {FALSE}
      [] fault = "bad_host" -> {TRUE, FALSE}
      [] OTHER              -> {TRUE}

\* transport.send(&message): with the relay in order a single message may
\* still be refused; with a connection fault every send fails to connect.
transport_send(fault) ==
    IF fault = "none" THEN {TRUE, FALSE} ELSE {FALSE}

(***************************************************************************)
(* Bulk Dispatcher: the thread of send_bulk (email.rs 116-171).            *)
(* pc: connect -> (connect_failed ->) sending/sleeping ... -> finish ->    *)
(* exit.  i is the loop index of `for (i, recipient) in ...enumerate()`.   *)
(***************************************************************************)
\* (mutation) the delay is taken after every recipient, the last included
ShouldDelayAlways(i, len) == i < len

\* email.rs 164: i < template.recipients.len() - 1 (usize; len >= 1 inside
\* the loop, so the subtraction does not wrap)
ShouldDelay(i, len) == i < len - 1

\* (mutation) the thread reads the template the editor shows, while that
\* template still has a recipient at the loop index
WorkerTemplateLive(w) ==
    IF /\ selected_template # None
       /\ Len(templates[selected_template + 1].recipients) > worker[w].i
    THEN templates[selected_template + 1]
    ELSE worker[w].template

\* The snapshot the thread works on: the EmailTemplate moved into the closure
\* (email.rs 118, 121), never the application's live template.
WorkerTemplate(w) == worker[w].template

\* (mutation) every recipient is sent with a transport made for it
TransportPerRecipient(w) == hist[w].transports + Len(hist[w].attempts)

\* email.rs 122, 139: `transport` is bound once, before the loop, and
\* transport.send inside the loop uses that binding: the transport of an
\* attempt is the one create_transport returned last (numbered from 1).
TransportUsed(w) == hist[w].transports

\* progress_tx.send(ev) with the result ignored (`let _ =`): the event is
\* queued while the Receiver lives and is discarded once it was dropped.
Queue(w, ev) == IF progress_rx = w THEN Append(chan[w], ev) ELSE chan[w]

\* (mutation) the loop steps over a recipient
LoopNextSkip(w, j) ==
    IF j + 1 < Len(WorkerTemplate(w).recipients)
    THEN [worker[w] EXCEPT !.pc = "sending", !.i = j + 1]
    ELSE [worker[w] EXCEPT !.pc = "finish", !.i = j + 1]

\* (mutation) the loop ends at the first recipient that failed
LoopNextAbortOnFail(w, j) ==
    IF /\ j < Len(WorkerTemplate(w).recipients)
       /\ ~(hist[w].emitted # << >> /\ hist[w].emitted[Len(hist[w].emitted)].type = "Failed")
    THEN [worker[w] EXCEPT !.pc = "sending", !.i = j]
    ELSE [worker[w] EXCEPT !.pc = "finish", !.i = j]

\* (mutation) after the last recipient the thread waits and never finishes
LoopNextBlocked(w, j) ==
    IF j < Len(WorkerTemplate(w).recipients)
    THEN [worker[w] EXCEPT !.pc = "sending", !.i = j]
    ELSE [worker[w] EXCEPT !.pc = "blocked", !.i = j]

\* (mutation) the loop ends once the Receiver is gone
LoopNextStopWhenDropped(w, j) ==
    IF j < Len(WorkerTemplate(w).recipients) /\ progress_rx = w
    THEN [worker[w] EXCEPT !.pc = "sending", !.i = j]
    ELSE [worker[w] EXCEPT !.pc = "finish", !.i = j]

\* (mutation) the throttle test runs once before the loop is entered, so an
\* empty recipient list sleeps on the wrapped recipients.len() - 1
LoopNextDelayOnEmpty(w, j) ==
    IF j < Len(WorkerTemplate(w).recipients)
    THEN [worker[w] EXCEPT !.pc = "sending", !.i = j]
    ELSE IF j = 0
         THEN [worker[w] EXCEPT !.pc = "sleeping", !.i = j]
         ELSE [worker[w] EXCEPT !.pc = "finish", !.i = j]

\* Where the for loop goes after index i: the next recipient or its end.
LoopNext(w, j) ==
    IF j < Len(WorkerTemplate(w).recipients)
    THEN [worker[w] EXCEPT !.pc = "sending", !.i = j]
    ELSE [worker[w] EXCEPT !.pc = "finish", !.i = j]

\* (mutation) every event carries index 0
OutcomeZeroIndex(i, r, built, sent) ==
    IF ~built.ok THEN Failed(0, r.email, built.error)
    ELSE IF sent THEN Sent(0, r.email)
    ELSE Failed(0, r.email, "smtp error")

\* (mutation) the result of transport.send is ignored
OutcomeIgnoreSendError(i, r, built, sent) ==
    IF ~built.ok THEN Failed(i, r.email, built.error) ELSE Sent(i, r.email)

\* email.rs 138-161: the event of recipient i, from the result of
\* build_message and, when it built, of transport.send
Outcome(i, r, built, sent) ==
    IF ~built.ok THEN Failed(i, r.email, built.error)
    ELSE IF sent THEN Sent(i, r.email)
    ELSE Failed(i, r.email, "smtp error")

\* (mutation) the `return` after the transport failure is missing
WorkerConnectNoReturn(w) ==
    /\ worker[w].pc = "connect"
    /\ \E ok \in create_transport(worker[w].fault) :
         IF ok
         THEN /\ worker' = [worker EXCEPT ![w] = LoopNext(w, 0)]
              /\ hist' = [hist EXCEPT ![w].transports = @ + 1]
              /\ chan' = chan
         ELSE LET ev == Failed(0, "N/A", "Failed to create transport")
              IN  /\ worker' = [worker EXCEPT ![w] = LoopNext(w, 0)]
                  /\ chan' = [chan EXCEPT ![w] = Queue(w, ev)]
                  /\ hist' = [hist EXCEPT ![w].emitted = Append(@, ev)]
    /\ UNCHANGED appVars

\* email.rs 122-133: create_transport(&config)
WorkerConnect(w) ==
    /\ worker[w].pc = "connect"
    /\ \E ok \in create_transport(worker[w].fault) :
         IF ok
         THEN /\ worker' = [worker EXCEPT ![w] = LoopNext(w, 0)]
              /\ hist' = [hist EXCEPT ![w].transports = @ + 1]
              /\ chan' = chan
         ELSE LET ev == Failed(0, "N/A", "Failed to create transport")
              IN  /\ worker' = [worker EXCEPT ![w].pc = "connect_failed"]
                  /\ chan' = [chan EXCEPT ![w] = Queue(w, ev)]
                  /\ hist' = [hist EXCEPT ![w].emitted = Append(@, ev)]
    /\ UNCHANGED appVars

\* email.rs 138-161: one iteration of the loop up to its event
WorkerAttempt(w) ==
    /\ worker[w].pc = "sending"
    /\ LET t     == WorkerTemplate(w)
           i     == worker[w].i
           r     == t.recipients[i + 1]
       IN  \E fs \in SUBSET Paths :
           \E sent \in (IF build_message(worker[w].config, t, r, fs).ok
                        THEN transport_send(worker[w].fault) ELSE {FALSE}) :
             LET built == build_message(worker[w].config, t, r, fs)
                 ev == Outcome(i, r, built, sent)
                 at == [index |-> i, email |-> r.email,
                        content |-> <<render_subject(t, r), render_body(t, r),
                                      t.attachment_paths>>,
                        built |-> built.ok, handed |-> built.ok, sent |-> sent,
                        transport |-> TransportUsed(w)]
             IN  /\ chan' = [chan EXCEPT ![w] = Queue(w, ev)]
                 /\ hist' = [hist EXCEPT ![w].emitted = Append(@, ev),
                                         ![w].attempts = Append(@, at)]
                 /\ worker' = [worker EXCEPT ![w] =
                        IF ShouldDelay(i, Len(t.recipients))
                        THEN [@ EXCEPT !.pc = "sleeping"]
                        ELSE LoopNext(w, i + 1)]
    /\ UNCHANGED appVars

\* email.rs 165: std::thread::sleep(delay) returns
WorkerWake(w) ==
    /\ worker[w].pc = "sleeping"
    /\ hist' = [hist EXCEPT ![w].delays = Append(@, worker[w].i)]
    /\ worker' = [worker EXCEPT ![w] = LoopNext(w, worker[w].i + 1)]
    /\ UNCHANGED <<chan, appVars>>

\* email.rs 130-131 and 169-170: the last event, then the thread ends.  A
\* thread that ends after its Receiver was dropped leaves nothing behind.
WorkerDone(w) ==
    /\ worker[w].pc \in {"connect_failed", "finish"}
    /\ IF progress_rx = w
       THEN /\ worker' = [worker EXCEPT ![w].pc = "exit"]
            /\ chan' = [chan EXCEPT ![w] = Append(@, Done)]
            /\ hist' = [hist EXCEPT ![w].emitted = Append(@, Done)]
       ELSE /\ worker' = [worker EXCEPT ![w] = IdleWorker]
            /\ chan' = [chan EXCEPT ![w] = << >>]
            /\ hist' = [hist EXCEPT ![w] = NoHistory]
    /\ UNCHANGED appVars

\* email.rs 116-121: send_bulk(config, template, progress_tx) spawns the
\* thread; config and template are moved into it.
send_bulk(cfg, template, fault) ==
    [pc |-> "connect", i |-> 0, fault |-> fault, config |-> cfg, template |-> template]

(***************************************************************************)
(* EmailApp::poll_progress (app.rs 53-74)                                  *)
(***************************************************************************)
\* app.rs 59, 63, 66: the lines pushed to status_log (format! with index + 1)
\* and their parts; the marks stand for the check mark, the cross and the dash
LogLine(msg) ==
    CASE msg.type = "Sent" ->
            [mark |-> "v", num |-> msg.index + 1, text |-> "Sent to", email |-> msg.email]
      [] msg.type = "Failed" ->
            [mark |-> "x", num |-> msg.index + 1, text |-> "Failed to send to",
             email |-> msg.email, error |-> msg.error]
      [] msg.type = "Done" ->
            [mark |-> "-", text |-> "Bulk send complete."]

\* app.rs 120
StartLine(template) ==
    [mark |-> "-", text |-> "Starting bulk send for", name |-> template.name]

\* (mutation) an empty queue is taken for the end of the send
RECURSIVE DrainDoneOnEmpty(_, _)
DrainDoneOnEmpty(log, queue) ==
    IF queue = << >> THEN [log |-> log, queue |-> queue, done |-> TRUE]
    ELSE LET msg == Head(queue)
         IN  IF msg.type = "Done"
             THEN [log |-> Append(log, LogLine(msg)), queue |-> Tail(queue), done |-> TRUE]
             ELSE DrainDoneOnEmpty(Append(log, LogLine(msg)), Tail(queue))

\* (mutation) Done is logged like any other event and the poll goes on
RECURSIVE DrainIgnoresDone(_, _)
DrainIgnoresDone(log, queue) ==
    IF queue = << >> THEN [log |-> log, queue |-> queue, done |-> FALSE]
    ELSE DrainIgnoresDone(Append(log, LogLine(Head(queue))), Tail(queue))

\* app.rs 55-72: `while let Ok(msg) = rx.try_recv()`, with the return at Done
RECURSIVE Drain(_, _)
Drain(log, queue) ==
    IF queue = << >> THEN [log |-> log, queue |-> queue, done |-> FALSE]
    ELSE LET msg == Head(queue)
         IN  IF msg.type = "Done"
             THEN [log |-> Append(log, LogLine(msg)), queue |-> Tail(queue), done |-> TRUE]
             ELSE Drain(Append(log, LogLine(msg)), Tail(queue))

\* Dropping the Receiver of worker w frees the queue; the record of a thread
\* that has already ended goes with it.
DropRx(w, wk) == IF wk[w].pc = "exit" THEN [wk EXCEPT ![w] = IdleWorker] ELSE wk
DropRxHist(w, wk, h) == IF wk[w].pc = "exit" THEN [h EXCEPT ![w] = NoHistory] ELSE h

\* (mutation) at Done the Receiver is kept
poll_progress_keeps_rx ==
    /\ phase = "poll"
    /\ phase' = "ui"
    /\ IF progress_rx = None
       THEN UNCHANGED <<status_log, is_sending, progress_rx, workerVars>>
       ELSE LET w == progress_rx
                d == Drain(status_log, chan[w])
            IN  /\ status_log' = d.log
                /\ chan' = [chan EXCEPT ![w] = d.queue]
                /\ is_sending' = IF d.done THEN FALSE ELSE is_sending
                /\ UNCHANGED <<progress_rx, worker, hist>>
    /\ UNCHANGED <<config, templates, selected_template, show_confirm_dialog,
                   created, inputs, call, ret, asked, new_recipient_args>>

poll_progress ==
    /\ phase = "poll"
    /\ phase' = "ui"
    /\ IF progress_rx = None
       THEN UNCHANGED <<status_log, is_sending, progress_rx, workerVars>>
       ELSE LET w == progress_rx
                d == Drain(status_log, chan[w])
            IN  /\ status_log' = d.log
                /\ IF d.done
                   THEN /\ is_sending' = FALSE
                        /\ progress_rx' = None
                        /\ chan' = [chan EXCEPT ![w] = << >>]
                        /\ worker' = DropRx(w, worker)
                        /\ hist' = DropRxHist(w, worker, hist)
                   ELSE /\ chan' = [chan EXCEPT ![w] = d.queue]
                        /\ UNCHANGED <<is_sending, progress_rx, worker, hist>>
    /\ UNCHANGED <<config, templates, selected_template, show_confirm_dialog,
                   created, inputs, call, ret, asked, new_recipient_args>>

(***************************************************************************)
(* EmailApp::update (app.rs 78-558) after poll_progress: the widgets of    *)
(* one frame, of which the user operates at most one.                      *)
(***************************************************************************)
EndFrame == phase = "ui" /\ phase' = "poll"

\* The frame in which the user operates a widget
Input == EndFrame /\ inputs < MaxInputs /\ inputs' = inputs + 1

\* HashMap::contains_key
HasKey(args, key) == \E j \in 1..Len(args) : args[j][1] = key

\* HashMap::get: the value entered for a key of the map
GetArg(args, key) == args[CHOOSE j \in 1..Len(args) : args[j][1] = key][2]

\* HashMap::entry(key).or_default(): a key the map lacks is entered with the
\* empty string, a key it has keeps its value
or_default(args, key) ==
    IF HasKey(args, key) THEN args ELSE Append(args, <<key, << >> >>)

\* The text field on the value of an entry is changed (app.rs 397-401, 459)
SetArg(args, key, value) ==
    [j \in 1..Len(args) |-> IF args[j][1] = key THEN <<key, value>> ELSE args[j]]

\* `for p in &placeholders { ... .entry(p.clone()).or_default() ... }`
RECURSIVE FillArgs(_, _)
FillArgs(args, placeholders) ==
    IF placeholders = << >> THEN args
    ELSE FillArgs(or_default(args, Head(placeholders)), Tail(placeholders))

\* app.rs 362, 382-403: the rows of the recipients grid, drawn on the clone
\* of the template; every row gets an entry for every placeholder of the
\* template as it is after the edits of this frame
GridRows(template) ==
    [template EXCEPT !.recipients =
        [k \in 1..Len(template.recipients) |->
            [template.recipients[k] EXCEPT
                !.args = FillArgs(@, extract_placeholders(template))]]]

\* app.rs 454-462: the placeholder fields of the Add Recipient group
NewRecipientFields(args, template) ==
    FillArgs(args, extract_placeholders(template))

\* app.rs 203-204, 454-462: new_recipient_args after the central panel of a
\* frame that shows the template at index sel of list (none: sel = None)
CentralPanel(args, list, sel) ==
    IF sel = None THEN args ELSE NewRecipientFields(args, list[sel + 1])

\* A frame in which no widget is operated
NoInput ==
    /\ EndFrame
    /\ new_recipient_args' = CentralPanel(new_recipient_args, templates, selected_template)
    /\ UNCHANGED <<config, templates, selected_template, progress_rx, is_sending,
                   status_log, show_confirm_dialog, created, inputs, workerVars, call, ret, asked>>

\* The template the central panel edits (app.rs 204-206)
Selected == templates[selected_template + 1]

\* app.rs 543-546: `self.templates[idx] = template` after a change
WriteBack(t) == [templates EXCEPT ![selected_template + 1] = t]

\* (mutation) the button is enabled while a send is in flight
can_send_unguarded(template) == template.recipients # << >>

\* app.rs 516
can_send(template) == template.recipients # << >> /\ ~is_sending

\* Worker slots that hold no thread
FreeSlots == {w \in Workers : worker[w].pc = "idle"}

\* app.rs 102-104: Cancel in the confirmation dialog
ConfirmCancel ==
    /\ Input
    /\ show_confirm_dialog
    /\ selected_template # None
    /\ show_confirm_dialog' = FALSE
    /\ new_recipient_args' = NewRecipientFields(new_recipient_args, Selected)
    /\ UNCHANGED <<config, templates, selected_template, progress_rx, is_sending,
                   status_log, created, workerVars, call, ret>>
    /\ asked' = 0

\* app.rs 105-122: Send All in the confirmation dialog.  The new Receiver
\* replaces the one progress_rx held, which is dropped.
ConfirmSendAll ==
    /\ Input
    /\ show_confirm_dialog
    /\ selected_template # None
    /\ FreeSlots # {}
    /\ LET w        == CHOOSE x \in FreeSlots : \A y \in FreeSlots : x <= y
           template == Selected
           old      == progress_rx
           kept     == IF old = None THEN worker ELSE DropRx(old, worker)
           keptHist == IF old = None THEN hist ELSE DropRxHist(old, worker, hist)
           keptChan == IF old = None THEN chan ELSE [chan EXCEPT ![old] = << >>]
       IN  /\ show_confirm_dialog' = FALSE
           /\ progress_rx' = w
           /\ is_sending' = TRUE
           /\ status_log' = Append(status_log, StartLine(template))
           /\ \E fault \in Faults :
                worker' = [kept EXCEPT ![w] = send_bulk(config, template, fault)]
           /\ chan' = [keptChan EXCEPT ![w] = << >>]
           /\ hist' = [keptHist EXCEPT ![w] = [NoHistory EXCEPT !.started = template]]
    /\ new_recipient_args' = NewRecipientFields(new_recipient_args, Selected)
    /\ UNCHANGED <<config, templates, selected_template, created, call, ret>>
    /\ asked' = 0

\* app.rs 137-143: + New with a non-empty name.  new_recipient_args is not
\* cleared: the central panel of the same frame shows the new template.
CreateTemplate ==
    /\ Input
    /\ Len(templates) < MaxTemplates
    /\ \E name \in Names :
         templates' = Append(templates, NewTemplate(created + 1, name))
    /\ selected_template' = Len(templates')  - 1
    /\ created' = created + 1
    /\ new_recipient_args' = CentralPanel(new_recipient_args, templates', selected_template')
    /\ UNCHANGED <<config, progress_rx, is_sending, status_log, show_confirm_dialog,
                   workerVars, call, ret, asked>>

\* app.rs 156-161: a template of the list is clicked; new_recipient_args is
\* cleared before the central panel shows the template
SelectTemplate ==
    /\ Input
    /\ \E i \in 0..(Len(templates) - 1) :
         /\ selected_template' = i
         /\ new_recipient_args' = CentralPanel(<< >>, templates, i)
    /\ UNCHANGED <<config, templates, progress_rx, is_sending, status_log,
                   show_confirm_dialog, created, workerVars, call, ret, asked>>

\* Vec::remove(del)
RemoveAt(seq, del) ==
    [k \in 1..(Len(seq) - 1) |-> IF k <= del THEN seq[k] ELSE seq[k + 1]]

\* (mutation) a selection after the deleted template is given up instead of
\* moved down
SelectionAfterDeleteDrop(sel, del) ==
    IF sel = del \/ (sel # None /\ sel > del) THEN None ELSE sel

\* app.rs 168-178, with the 0-based index del of the template to delete
SelectionAfterDelete(sel, del) ==
    IF sel = del THEN None
    ELSE IF sel # None /\ sel > del THEN sel - 1
    ELSE sel

\* app.rs 162-178: the bin button of a template
DeleteTemplate ==
    /\ Input
    /\ \E del \in 0..(Len(templates) - 1) :
         /\ templates' = RemoveAt(templates, del)
         /\ selected_template' = SelectionAfterDelete(selected_template, del)
    /\ new_recipient_args' = CentralPanel(new_recipient_args, templates', selected_template')
    /\ UNCHANGED <<config, progress_rx, is_sending, status_log, show_confirm_dialog,
                   created, workerVars, call, ret, asked>>

\* app.rs 206-207, 362-403, 454-462, 543-546: a frame in which a widget of the
\* central panel changed the clone of the selected template into `edited`
\* before the recipients grid was drawn: the grid fills the rows, the Add
\* Recipient group fills its fields, and the clone is written back
Changed(edited) ==
    /\ templates' = WriteBack(GridRows(edited))
    /\ new_recipient_args' = NewRecipientFields(new_recipient_args, edited)
    /\ UNCHANGED <<config, selected_template, progress_rx, is_sending, status_log,
                   show_confirm_dialog, created, workerVars, call, ret, asked>>

\* app.rs 214-219: the name field is changed
EditName ==
    /\ Input
    /\ selected_template # None
    /\ \E name \in EditedNames \ {Selected.name} :
         Changed([Selected EXCEPT !.name = name])

\* app.rs 224-229: the subject field is changed
EditSubject ==
    /\ Input
    /\ selected_template # None
    /\ \E subject \in Subjects \ {Selected.subject} :
         Changed([Selected EXCEPT !.subject = subject])

\* app.rs 564-568
wrap_body_selection(body, open_tag, close_tag) == body \o open_tag \o close_tag

\* The tags of the B, I and U buttons (app.rs 244, 251, 258)
FormatTags ==
    { << <<"<", "b", ">">>, <<"<", "/", "b", ">">> >>,
      << <<"<", "i", ">">>, <<"<", "/", "i", ">">> >>,
      << <<"<", "u", ">">>, <<"<", "/", "u", ">">> >> }

\* app.rs 266: the text the Link button appends
LinkText ==
    <<"<", "a", " ", "h", "r", "e", "f", "=", "\"", "U", "R", "L", "\"", ">",
      "l", "i", "n", "k", " ", "t", "e", "x", "t", "<", "/", "a", ">">>

\* app.rs 273: the text the List Item button appends, a line feed, a bullet
\* (written "*" here) and a space
ListItemText == <<"\n", "*", " ">>

\* app.rs 240-260 (and the shortcuts of 292-308): B, I or U of the toolbar
ToolbarFormat ==
    /\ Input
    /\ selected_template # None
    /\ \E tags \in FormatTags :
         LET body == wrap_body_selection(Selected.body, tags[1], tags[2])
         IN  /\ Len(body) <= MaxBody
             /\ Changed([Selected EXCEPT !.body = body])

\* app.rs 262-268: Link of the toolbar
ToolbarLink ==
    /\ Input
    /\ selected_template # None
    /\ Len(Selected.body \o LinkText) <= MaxBody
    /\ Changed([Selected EXCEPT !.body = @ \o LinkText])

\* app.rs 269-275: List Item of the toolbar
ToolbarListItem ==
    /\ Input
    /\ selected_template # None
    /\ Len(Selected.body \o ListItemText) <= MaxBody
    /\ Changed([Selected EXCEPT !.body = @ \o ListItemText])

\* app.rs 280-289: the body field is changed
EditBody ==
    /\ Input
    /\ selected_template # None
    /\ \E body \in Bodies \ {Selected.body} :
         Changed([Selected EXCEPT !.body = body])

\* app.rs 336-344: Remove on an attachment row
RemoveAttachment ==
    /\ Input
    /\ selected_template # None
    /\ \E rm \in 0..(Len(Selected.attachment_paths) - 1) :
         Changed([Selected EXCEPT !.attachment_paths = RemoveAt(@, rm)])

\* app.rs 346-353: Add Attachment(s) with the files picked, pushed in the
\* order pick_files returned them
AddAttachment ==
    /\ Input
    /\ selected_template # None
    /\ \E files \in SeqsUpTo(Paths, MaxAttachments - Len(Selected.attachment_paths)) :
         /\ files # << >>
         /\ Changed([Selected EXCEPT !.attachment_paths = @ \o files])

\* app.rs 385-390: the email field of a recipient row is changed
EditRecipient ==
    /\ Input
    /\ selected_template # None
    /\ \E ri \in 0..(Len(Selected.recipients) - 1) :
         \E email \in Emails \ {Selected.recipients[ri + 1].email} :
           Changed([Selected EXCEPT !.recipients[ri + 1].email = email])

\* app.rs 392-403: a placeholder field of a recipient row is changed
EditRecipientArg ==
    /\ Input
    /\ selected_template # None
    /\ LET rows         == GridRows(Selected)
           placeholders == extract_placeholders(Selected)
       IN  \E ri \in 0..(Len(rows.recipients) - 1), p \in 1..Len(placeholders) :
             LET key == placeholders[p]
                 old == rows.recipients[ri + 1].args
             IN  \E value \in ArgValues \ {GetArg(old, key)} :
                   Changed([rows EXCEPT
                               !.recipients[ri + 1].args = SetArg(old, key, value)])

\* app.rs 409-411, 423-426: the bin button of a recipient row, taken out
\* after the grid was drawn
RemoveRecipient ==
    /\ Input
    /\ selected_template # None
    /\ \E rm \in 0..(Len(Selected.recipients) - 1) :
         /\ templates' = WriteBack([GridRows(Selected) EXCEPT
                                       !.recipients = RemoveAt(@, rm)])
         /\ new_recipient_args' = NewRecipientFields(new_recipient_args, Selected)
    /\ UNCHANGED <<config, selected_template, progress_rx, is_sending, status_log,
                   show_confirm_dialog, created, workerVars, call, ret, asked>>

\* app.rs 454-462: a placeholder field of the Add Recipient group is changed;
\* the template is not
EditNewRecipientArg ==
    /\ Input
    /\ selected_template # None
    /\ LET fields       == NewRecipientFields(new_recipient_args, Selected)
           placeholders == extract_placeholders(Selected)
       IN  \E p \in 1..Len(placeholders) :
             \E value \in ArgValues \ {GetArg(fields, placeholders[p])} :
               new_recipient_args' = SetArg(fields, placeholders[p], value)
    /\ UNCHANGED <<config, templates, selected_template, progress_rx, is_sending,
                   status_log, show_confirm_dialog, created, workerVars, call, ret,
                   asked>>

\* app.rs 463-474: + Add Recipient with a non-empty new_recipient_email.  The
\* recipient gets a clone of new_recipient_args, which is then cleared.
AddRecipient ==
    /\ Input
    /\ selected_template # None
    /\ Len(Selected.recipients) < MaxRecipients
    /\ \E email \in Emails :
         LET args == NewRecipientFields(new_recipient_args, Selected)
         IN  templates' = WriteBack([GridRows(Selected) EXCEPT
                             !.recipients = Append(@, Recipient(email, args))])
    /\ new_recipient_args' = << >>
    /\ UNCHANGED <<config, selected_template, progress_rx, is_sending, status_log,
                   show_confirm_dialog, created, workerVars, call, ret, asked>>

\* app.rs 515-529: Send to All Recipients, enabled by can_send
ClickSendToAll ==
    /\ Input
    /\ selected_template # None
    /\ can_send(Selected)
    /\ show_confirm_dialog' = TRUE
    /\ new_recipient_args' = NewRecipientFields(new_recipient_args, Selected)
    /\ UNCHANGED <<config, templates, selected_template, progress_rx, is_sending,
                   status_log, created, workerVars, call, ret>>
    /\ asked' = Selected.id

\* app.rs 537-539: Clear Log
ClearLog ==
    /\ Input
    /\ selected_template # None
    /\ status_log # << >>
    /\ status_log' = << >>
    /\ new_recipient_args' = NewRecipientFields(new_recipient_args, Selected)
    /\ UNCHANGED <<config, templates, selected_template, progress_rx, is_sending,
                   show_confirm_dialog, created, workerVars, call, ret, asked>>

\* email.rs 105-114: the results send_single can return in an environment
\* (fault: the relay side, fs: the readable files).  Each `?` returns the
\* error of the step that failed; nothing but the result leaves the call.
send_single(cfg, template, recipient, fault, fs) ==
    LET built == build_message(cfg, template, recipient, fs)
    IN  UNION { IF ~made THEN {[ok |-> FALSE, error |-> "tls error"]}
                ELSE IF ~built.ok THEN {[ok |-> FALSE, error |-> built.error]}
                ELSE { IF sent THEN [ok |-> TRUE]
                               ELSE [ok |-> FALSE, error |-> "smtp error"]
                       : sent \in transport_send(fault) }
              : made \in create_transport(fault) }

\* app.rs 436, 440: the line pushed for the result of a single send
SingleLine(email, result) ==
    IF result.ok
    THEN [mark |-> "v", text |-> "Sent to", email |-> email]
    ELSE [mark |-> "x", text |-> "Failed to send to", email |-> email,
          error |-> result.error]

\* (mutation) the single send ends the bulk send the application waits for
SendSingleEndsSending ==
    /\ Input
    /\ selected_template # None
    /\ \E si \in 0..(Len(Selected.recipients) - 1) :
         LET tmpl      == GridRows(Selected)
             recipient == tmpl.recipients[si + 1]
         IN  \E fault \in Faults, fs \in SUBSET Paths :
               \E result \in send_single(config, tmpl, recipient, fault, fs) :
                 status_log' = Append(status_log, SingleLine(recipient.email, result))
    /\ is_sending' = FALSE
    /\ new_recipient_args' = NewRecipientFields(new_recipient_args, Selected)
    /\ UNCHANGED <<config, templates, selected_template, progress_rx,
                   show_confirm_dialog, created, workerVars, call, ret, asked>>

\* app.rs 406-408, 428-443: Send on a recipient row.  send_single runs on the
\* UI thread inside the frame, on clones of the configuration, of the template
\* as the grid left it and of that recipient.
SendSingle ==
    /\ Input
    /\ selected_template # None
    /\ \E si \in 0..(Len(Selected.recipients) - 1) :
         LET tmpl      == GridRows(Selected)
             recipient == tmpl.recipients[si + 1]
         IN  \E fault \in Faults, fs \in SUBSET Paths :
               \E result \in send_single(config, tmpl, recipient, fault, fs) :
                 status_log' = Append(status_log, SingleLine(recipient.email, result))
    /\ new_recipient_args' = NewRecipientFields(new_recipient_args, Selected)
    /\ UNCHANGED <<config, templates, selected_template, progress_rx, is_sending,
                   show_confirm_dialog, created, workerVars, call, ret, asked>>

(***************************************************************************)
(* SpecBulk: one bulk send.  The initial states are the application right  *)
(* after `send_bulk(config, template, tx)` of app.rs 112-121, for every    *)
(* configuration, snapshot and environment of the bounded sets.  The       *)
(* recipients of a snapshot carry an entry for every placeholder of its    *)
(* template, as the rows the editor writes back do.                        *)
(***************************************************************************)
\* The values the recipients of a snapshot carry for a placeholder
SnapshotValues == {<<"A", "n", "n">>}

\* The argument maps with one entry for each of the placeholders
RECURSIVE SnapshotArgs(_)
SnapshotArgs(placeholders) ==
    IF placeholders = << >> THEN {<< >>}
    ELSE {<< <<Head(placeholders), v>> >> \o rest :
             v \in SnapshotValues, rest \in SnapshotArgs(Tail(placeholders))}

Snapshots ==
    UNION { [id : {1}, name : Names, subject : {s}, body : {b},
             attachment_paths : SeqsUpTo(Paths, MaxAttachments),
             recipients :
                 SeqsUpTo({Recipient(e, a) :
                              e \in Emails,
                              a \in SnapshotArgs(extract_placeholders(
                                        [subject |-> s, body |-> b]))},
                          MaxBatch)]
            : s \in Subjects, b \in Bodies }

InitBulk ==
    /\ config \in Configs
    /\ templates \in {<<t>> : t \in Snapshots}
    /\ selected_template = 0
    /\ progress_rx = 1
    /\ is_sending = TRUE
    /\ status_log = <<StartLine(templates[1])>>
    /\ show_confirm_dialog = FALSE
    /\ phase = "poll"
    /\ \E fault \in Faults :
         worker = [w \in Workers |->
                     IF w = 1 THEN send_bulk(config, templates[1], fault) ELSE IdleWorker]
    /\ chan = [w \in Workers |-> << >>]
    /\ hist = [w \in Workers |->
                 IF w = 1 THEN [NoHistory EXCEPT !.started = templates[1]] ELSE NoHistory]
    /\ created = 1
    /\ inputs = 0
    /\ call = NoCall
    /\ ret = NoRet
    /\ asked = 0
    /\ new_recipient_args = NewRecipientFields(<< >>, templates[1])

WorkerStep ==
    \E w \in Workers :
        \/ WorkerConnect(w)
        \/ WorkerAttempt(w)
        \/ WorkerWake(w)
        \/ WorkerDone(w)

NextBulk ==
    \/ WorkerStep
    \/ poll_progress
    \/ NoInput

SpecBulk == InitBulk /\ [][NextBulk]_vars

\* SpecBulk with the thread scheduled: the thread of std::thread::spawn runs
\* whenever it can take a step, every call it makes returning (the calls of
\* build_message and transport.send and the sleep end).
SpecBulkFair == InitBulk /\ [][NextBulk]_vars /\ WF_vars(WorkerStep)

(***************************************************************************)
(* SpecDrop: SpecBulkFair with an observer that may drop the Receiver      *)
(* while the thread runs (the caller of send_bulk owns it, email.rs 119).  *)
(***************************************************************************)
DropReceiver ==
    /\ progress_rx # None
    /\ worker[progress_rx].pc \notin {"idle", "exit"}
    /\ chan' = [chan EXCEPT ![progress_rx] = << >>]
    /\ progress_rx' = None
    /\ UNCHANGED <<config, templates, selected_template, is_sending, status_log,
                   show_confirm_dialog, phase, created, inputs, worker, hist,
                   call, ret, asked, new_recipient_args>>

NextDrop ==
    \/ WorkerStep
    \/ poll_progress
    \/ NoInput
    \/ DropReceiver

SpecDrop == InitBulk /\ [][NextDrop]_vars /\ WF_vars(WorkerStep)

(***************************************************************************)
(* Spec: the application.  EmailApp::new (app.rs 33-47) with no template   *)
(* loaded; every frame is poll_progress followed by at most one input.     *)
(***************************************************************************)
Init ==
    /\ config \in Configs
    /\ templates = << >>
    /\ selected_template = None
    /\ progress_rx = None
    /\ is_sending = FALSE
    /\ status_log = << >>
    /\ show_confirm_dialog = FALSE
    /\ phase = "poll"
    /\ worker = [w \in Workers |-> IdleWorker]
    /\ chan = [w \in Workers |-> << >>]
    /\ hist = [w \in Workers |-> NoHistory]
    /\ created = 0
    /\ inputs = 0
    /\ call = NoCall
    /\ ret = NoRet
    /\ asked = 0
    /\ new_recipient_args = << >>

Next ==
    \/ poll_progress
    \/ NoInput
    \/ ConfirmCancel
    \/ ConfirmSendAll
    \/ CreateTemplate
    \/ SelectTemplate
    \/ DeleteTemplate
    \/ EditName
    \/ EditSubject
    \/ ToolbarFormat
    \/ ToolbarLink
    \/ ToolbarListItem
    \/ EditBody
    \/ RemoveAttachment
    \/ AddAttachment
    \/ EditRecipient
    \/ EditRecipientArg
    \/ RemoveRecipient
    \/ EditNewRecipientArg
    \/ AddRecipient
    \/ ClickSendToAll
    \/ SendSingle
    \/ ClearLog
    \/ WorkerStep

Spec == Init /\ [][Next]_vars

\* Spec with the threads scheduled and update called again and again (while
\* is_sending, update itself asks for the next frame, app.rs 82-84): every
\* frame polls and comes to its end.
SpecFair ==
    /\ Init
    /\ [][Next]_vars
    /\ WF_vars(WorkerStep)
    /\ WF_vars(poll_progress)
    /\ WF_vars(NoInput)

(***************************************************************************)
(* SpecText: one call of a function of the template renderer or of the     *)
(* message builder, for every input of the bounded sets; the application   *)
(* stays as EmailApp::new left it.                                         *)
(***************************************************************************)
TextChars == {"{", "}", "a", "b"}
HtmlChars == {"<", ">", "a", "b"}
Texts     == SeqsUpTo(TextChars, MaxText)
Htmls     == SeqsUpTo(HtmlChars, MaxText)

\* Keys and values of a recipient's argument map
Keys   == {<<"a">>, <<"b">>}
Values == {<< >>, <<"a">>, <<"{", "a", "}">>, <<"{", "b", "}">>}

\* The maps of at most MaxArgs entries, each in every iteration order
ArgMaps ==
    {m \in SeqsUpTo(Keys \X Values, MaxArgs) :
        \A j, k \in 1..Len(m) : j # k => m[j][1] # m[k][1]}

\* A text inside a pair of tags
Wrap(text) == <<"<", "b", ">">> \o text \o <<"<", "/", "b", ">">>

\* Attachment paths: a file, another file, a path without a file name
Files == {<<"docs", "cv.pdf">>, <<"tmp", "notes.txt">>, <<"docs", "..">>}

RenderCalls ==
    [fn : {"render_text"}, text : Texts,
     recipient : [email : {"ann@x.org"}, args : ArgMaps]]

ExtractCalls ==
    [fn : {"extract_placeholders"}, subject : Texts, body : Texts]

StripCalls ==
    [fn : {"strip_html_tags"}, html : Htmls \cup {Wrap(t) : t \in Htmls}]

BuildCalls ==
    [fn : {"build_message"}, cfg : Configs, body : Bodies,
     attachment_paths : SeqsUpTo(Files, MaxParts),
     email : Emails, fs : SUBSET Files]

\* The template of a call that names its parts
TemplateOf(c) ==
    [NewTemplate(1, "news") EXCEPT
        !.subject = IF "subject" \in DOMAIN c THEN c.subject ELSE << >>,
        !.body = IF "body" \in DOMAIN c THEN c.body ELSE << >>,
        !.attachment_paths =
            IF "attachment_paths" \in DOMAIN c THEN c.attachment_paths ELSE NoPaths]

InitText ==
    /\ config = [username |-> "me@x.org"]
    /\ templates = << >>
    /\ selected_template = None
    /\ progress_rx = None
    /\ is_sending = FALSE
    /\ status_log = << >>
    /\ show_confirm_dialog = FALSE
    /\ phase = "poll"
    /\ worker = [w \in Workers |-> IdleWorker]
    /\ chan = [w \in Workers |-> << >>]
    /\ hist = [w \in Workers |-> NoHistory]
    /\ created = 0
    /\ inputs = 0
    /\ call \in RenderCalls \cup ExtractCalls \cup StripCalls \cup BuildCalls
    /\ ret = NoRet
    /\ asked = 0
    /\ new_recipient_args = << >>

\* The call returns v; nothing else changes
Return(v) ==
    /\ ~ret.returned
    /\ ret' = [returned |-> TRUE, value |-> v]
    /\ UNCHANGED <<config, templates, selected_template, progress_rx, is_sending,
                   status_log, show_confirm_dialog, phase, created, inputs,
                   workerVars, call, asked, new_recipient_args>>

CallRenderText ==
    /\ call.fn = "render_text"
    /\ Return(render_text(call.text, call.recipient))

CallExtractPlaceholders ==
    /\ call.fn = "extract_placeholders"
    /\ Return(extract_placeholders(TemplateOf(call)))

CallStripHtmlTags ==
    /\ call.fn = "strip_html_tags"
    /\ Return(strip_html_tags(call.html))

CallBuildMessage ==
    /\ call.fn = "build_message"
    /\ Return(build_message(call.cfg, TemplateOf(call), Recipient(call.email, << >>), call.fs))

NextText ==
    \/ CallRenderText
    \/ CallExtractPlaceholders
    \/ CallStripHtmlTags
    \/ CallBuildMessage

SpecText == InitText /\ [][NextText]_vars

(***************************************************************************)
(* Properties.  hist[w].started is the template the application held when  *)
(* it called send_bulk; Batch(w) is its number of recipients.              *)
(***************************************************************************)
Batch(w)      == Len(hist[w].started.recipients)
Emitted(w)    == hist[w].emitted
Ended(w)      == worker[w].pc = "exit"
Connected(w)  == hist[w].transports >= 1
NonDone(e)    == SelectSeq(e, LAMBDA x : x.type # "Done")
IsSuffix(a, b) ==
    /\ Len(a) <= Len(b)
    /\ \A k \in 1..Len(a) : a[k] = b[Len(b) - Len(a) + k]

\* C1: the events a bulk send puts on the channel are Sent/Failed events with
\* strictly increasing indices followed by exactly one Done: Done occurs only
\* as the last event, a thread that has ended has emitted it, a thread that
\* has not ended has not, and the queue holds a suffix of what was emitted.
C1_EventOrder ==
    \A w \in Workers :
        LET e == Emitted(w)
        IN  /\ \A j \in 1..Len(e) : e[j].type = "Done" => j = Len(e)
            /\ \A j, k \in 1..Len(e) :
                  (j < k /\ e[j].type # "Done" /\ e[k].type # "Done")
                      => e[j].index < e[k].index
            /\ Ended(w) => (e # << >> /\ e[Len(e)].type = "Done")
            /\ worker[w].pc \notin {"exit", "idle"} =>
                  \A j \in 1..Len(e) : e[j].type # "Done"
            /\ progress_rx = w => IsSuffix(chan[w], e)

\* A three-recipient send has ended with both kinds of events before Done.
C1_Witness ==
    \E w \in Workers :
        /\ Ended(w)
        /\ Len(Emitted(w)) = 4
        /\ \E j, k \in 1..3 : Emitted(w)[j].type = "Sent" /\ Emitted(w)[k].type = "Failed"

\* C2: once the transport exists no failure ends the loop: the attempts made
\* so far are the recipients 0, 1, 2, ... in order without a gap, and the
\* loop is left (finish, exit) only when every recipient has been attempted.
C2_FailureNeverAborts ==
    \A w \in Workers :
        Connected(w) =>
            LET a == hist[w].attempts
            IN  /\ \A k \in 1..Len(a) : a[k].index = k - 1
                /\ worker[w].pc \in {"finish", "exit"} => Len(a) = Batch(w)
                /\ worker[w].pc \in {"sending", "sleeping"} => Len(a) < Batch(w)

\* The first recipient failed to build, the second failed at the transport,
\* and the third was still attempted.
C2_Witness ==
    \E w \in Workers :
        /\ Ended(w) /\ Connected(w) /\ Batch(w) = 3
        /\ ~hist[w].attempts[1].built
        /\ hist[w].attempts[2].built /\ ~hist[w].attempts[2].sent
        /\ Len(hist[w].attempts) = 3

\* C3: with the transport created, the k-th event is the event of recipient
\* k: it has index k (0-based) and that recipient's email; when the thread
\* has ended there are exactly N such events before Done.
C3_OneEventPerRecipient ==
    \A w \in Workers :
        Connected(w) =>
            LET e == NonDone(Emitted(w))
            IN  /\ Len(e) <= Batch(w)
                /\ \A k \in 1..Len(e) :
                      /\ e[k].type \in {"Sent", "Failed"}
                      /\ e[k].index = k - 1
                      /\ e[k].email = hist[w].started.recipients[k].email
                /\ Ended(w) => /\ Len(e) = Batch(w)
                               /\ Len(Emitted(w)) = Batch(w) + 1

C3_Witness ==
    \E w \in Workers :
        /\ Ended(w) /\ Connected(w) /\ Batch(w) = 3
        /\ hist[w].started.recipients[1].email # hist[w].started.recipients[2].email
        /\ Len(Emitted(w)) = 4

\* C4: when create_transport fails the events are Failed{0, "N/A"} and then
\* Done, nothing else, and no recipient is built or sent, whatever the batch.
C4_TransportFailure ==
    \A w \in Workers :
        (worker[w].pc # "idle" /\ ~Connected(w)) =>
            LET e == Emitted(w)
            IN  /\ hist[w].attempts = << >>
                /\ hist[w].delays = << >>
                /\ Len(e) <= 2
                /\ Len(e) >= 1 => (e[1].type = "Failed" /\ e[1].index = 0 /\ e[1].email = "N/A")
                /\ Len(e) = 2 => e[2] = Done
                /\ worker[w].pc = "connect" => Len(e) = 0
                /\ worker[w].pc \in {"sending", "sleeping", "finish"} => FALSE
                /\ Ended(w) => Len(e) = 2

C4_Witness ==
    \E w \in Workers :
        /\ Ended(w) /\ ~Connected(w) /\ Batch(w) = 3
        /\ Len(Emitted(w)) = 2

\* C5 (as claimed): when the relay cannot be reached or rejects the
\* credentials, no recipient is attempted and no Failed event has an index
\* above 0.
C5_ConnectionFailureIsFatal ==
    \A w \in Workers :
        (worker[w].pc # "idle" /\ worker[w].fault \in {"bad_host", "auth_rejected", "unreachable"})
            => /\ hist[w].attempts = << >>
               /\ \A j \in 1..Len(Emitted(w)) :
                     Emitted(w)[j].type = "Failed" => Emitted(w)[j].index = 0

\* C6: the event of recipient i is Sent exactly when its message built (the
\* From/Reply-To address of the configuration and the recipient's address
\* parse) and transport.send returned Ok; a message is handed to the
\* transport only when it built; without a transport nothing is Sent.
C6_SentIffBuiltAndSent ==
    \A w \in Workers :
        LET e == NonDone(Emitted(w))
            a == hist[w].attempts
        IN  IF Connected(w)
            THEN /\ Len(e) = Len(a)
                 /\ \A k \in 1..Len(a) :
                      LET builds == /\ AddressParses(worker[w].config.username)
                                    /\ AddressParses(hist[w].started.recipients[k].email)
                      IN  /\ a[k].handed <=> builds
                          /\ a[k].sent => a[k].handed
                          /\ e[k].type = "Sent" <=> (builds /\ a[k].sent)
                          /\ e[k].type = "Failed" <=> ~(builds /\ a[k].sent)
            ELSE \A k \in 1..Len(e) : e[k].type = "Failed"

\* Sent{0}, Failed{1} for the unparsable address, Sent{2}, Done.
C6_Witness ==
    \E w \in Workers :
        /\ Ended(w) /\ Batch(w) = 3
        /\ hist[w].started.recipients[2].email = "not-an-address"
        /\ Emitted(w)[1].type = "Sent" /\ Emitted(w)[1].index = 0
        /\ Emitted(w)[2].type = "Failed" /\ Emitted(w)[2].index = 1
        /\ Emitted(w)[3].type = "Sent" /\ Emitted(w)[3].index = 2
        /\ Emitted(w)[4] = Done

\* C7 (as claimed): a bulk send over N >= 1 recipients that has ended has
\* taken exactly N - 1 delays.
C7_DelaysAsClaimed ==
    \A w \in Workers :
        (Ended(w) /\ Batch(w) >= 1) => Len(hist[w].delays) = Batch(w) - 1

\* C7 (amended): in a bulk send whose transport was created, the delay is
\* taken once after each recipient i < N - 1, whatever its outcome, and never
\* after the last: the delays taken are those after 0, 1, ..., each before
\* the next attempt, and a send over N >= 1 recipients ends with N - 1.
C7_DelayBetweenRecipients ==
    \A w \in Workers :
        Connected(w) =>
            LET d == hist[w].delays
                a == hist[w].attempts
            IN  /\ \A k \in 1..Len(d) : d[k] = k - 1 /\ d[k] < Batch(w) - 1
                /\ worker[w].pc = "sending" => Len(d) = Len(a)
                /\ worker[w].pc = "sleeping" => Len(d) = Len(a) - 1
                /\ (worker[w].pc \in {"finish", "exit"} /\ Batch(w) >= 1) =>
                      (Len(d) = Batch(w) - 1 /\ Len(a) = Batch(w))

\* A send of three has ended with two delays, the first after a failure.
C7_Witness ==
    \E w \in Workers :
        /\ Ended(w) /\ Connected(w) /\ Batch(w) = 3
        /\ hist[w].delays = <<0, 1>>
        /\ Emitted(w)[1].type = "Failed"

\* A worker slot is in flight from send_bulk until its Done has been polled.
InFlight(w) == worker[w].pc # "idle"

\* The live template a send was started from, if it still exists
LiveOf(w) == {k \in 1..Len(templates) : templates[k].id = hist[w].started.id}

\* C8: a bulk send works on the template as it was when the send started:
\* whatever the editor does to the live template meanwhile, the recipients
\* attempted are those of that template in its order, each with the content
\* rendered from it, the events carry their emails, and the loop ends after
\* its last recipient.
C8_SnapshotIsolation ==
    \A w \in Workers :
        InFlight(w) =>
            LET st == hist[w].started
                a  == hist[w].attempts
                e  == NonDone(Emitted(w))
            IN  /\ Len(a) <= Len(st.recipients)
                /\ \A k \in 1..Len(a) :
                      /\ a[k].index = k - 1
                      /\ a[k].email = st.recipients[k].email
                      /\ a[k].content = <<render_subject(st, st.recipients[k]),
                                          render_body(st, st.recipients[k]),
                                          st.attachment_paths>>
                /\ Connected(w) =>
                      /\ Len(e) = Len(a)
                      /\ \A k \in 1..Len(e) : e[k].email = st.recipients[k].email
                      /\ worker[w].pc \in {"finish", "exit"} => Len(a) = Len(st.recipients)

\* The first recipient has been attempted, the second is still to come, and
\* the live template has meanwhile got other recipients or was deleted.
C8_Witness ==
    \E w \in Workers :
        /\ worker[w].pc = "sleeping"
        /\ Len(hist[w].attempts) = 1
        /\ \A k \in LiveOf(w) : templates[k].recipients # hist[w].started.recipients

\* C9: send_bulk is invoked only while is_sending is false and no worker is
\* in flight, so at most one worker whose Done has not been observed exists.
C9_SingleSendInFlight ==
    [][ (\E w \in Workers : ~InFlight(w) /\ InFlight(w)')
            => /\ ~is_sending
               /\ \A w \in Workers : ~InFlight(w)
               /\ Cardinality({w \in Workers : InFlight(w)'}) = 1 ]_vars

IsStartLine(line) == line.text = "Starting bulk send for"

\* A second send is in flight after the first one has been completed.
C9_Witness ==
    /\ \E w \in Workers : InFlight(w)
    /\ is_sending
    /\ Cardinality({j \in 1..Len(status_log) : IsStartLine(status_log[j])}) = 2

IsProgressLine(line) == "num" \in DOMAIN line \/ line.text = "Bulk send complete."
LogLines(events) == [k \in 1..Len(events) |-> LogLine(events[k])]

\* The progress lines after the last start line of the log
LinesOfThisSend ==
    LET starts == {j \in 1..Len(status_log) : IsStartLine(status_log[j])}
        last   == CHOOSE j \in starts : \A k \in starts : k <= j
    IN  SelectSeq(SubSeq(status_log, last + 1, Len(status_log)), IsProgressLine)

\* Of a send in flight nothing is lost: its Receiver is held, the queue is
\* what was emitted and not yet polled, and, while the log still has the start
\* line, the lines after it are those of the events polled, in order.
C10_NothingLost ==
    \A w \in Workers :
        InFlight(w) =>
            /\ progress_rx = w
            /\ IsSuffix(chan[w], Emitted(w))
            /\ (\E j \in 1..Len(status_log) : IsStartLine(status_log[j])) =>
                  LinesOfThisSend =
                      LogLines(SubSeq(Emitted(w), 1, Len(Emitted(w)) - Len(chan[w])))

\* What one step does to the queue that progress_rx holds: the events it
\* takes are the head of the queue and their lines are appended in order.
C10_PollStep ==
    LET w == progress_rx
    IN  w # None =>
          CASE progress_rx' = w ->
                 LET k == Len(chan[w]) + Len(Emitted(w)') - Len(Emitted(w)) - Len(chan'[w])
                 IN  /\ k >= 0
                     /\ k > 0 => status_log' = status_log \o LogLines(SubSeq(chan[w], 1, k))
                     /\ k > 0 => chan'[w] = SubSeq(chan[w], k + 1, Len(chan[w]))
            [] progress_rx' = None ->
                 /\ chan[w] # << >>
                 /\ chan[w][Len(chan[w])] = Done
                 /\ status_log' = status_log \o LogLines(chan[w])
                 /\ ~is_sending'
            [] OTHER -> TRUE

\* C10: poll_progress can always run (it never waits for an event), and under
\* every interleaving with the worker each event emitted, Done included, is
\* appended to the status log once and in emission order, however the events
\* are split across polls.
C10_PollAppendsInOrder ==
    /\ [](phase = "poll" => ENABLED poll_progress)
    /\ []C10_NothingLost
    /\ [][C10_PollStep]_vars

\* Two events were polled by an earlier poll, Done is still in the queue.
C10_Witness ==
    \E w \in Workers :
        /\ progress_rx = w
        /\ Len(Emitted(w)) = 3
        /\ chan[w] = <<Done>>
        /\ Len(status_log) = 3
        /\ phase = "poll"

\* The line of a single send: a Sent/Failed line without a recipient number
IsSingleLine(line) ==
    /\ line.text \in {"Sent to", "Failed to send to"}
    /\ "num" \notin DOMAIN line

\* A step that appends the line of a single send to the log
SingleSendStep ==
    /\ Len(status_log') = Len(status_log) + 1
    /\ IsSingleLine(status_log'[Len(status_log')])

\* C11: a single send runs inside the frame and bypasses the progress
\* channel: the step that reports it puts no event in any queue, lets no
\* worker emit or move, leaves is_sending, progress_rx and the templates as
\* they are, and its only trace is the one log line made from the value
\* send_single returned for a recipient of the selected template, also while
\* a bulk send is in flight.
C11_SingleSendBypassesChannel ==
    [][ SingleSendStep =>
          /\ UNCHANGED <<is_sending, progress_rx, worker, chan, hist>>
          /\ UNCHANGED <<config, templates, selected_template, show_confirm_dialog>>
          /\ \E si \in 1..Len(Selected.recipients) :
               \E fault \in Faults, fs \in SUBSET Paths :
                 \E result \in send_single(config, Selected, Selected.recipients[si],
                                           fault, fs) :
                   status_log' = Append(status_log,
                                        SingleLine(Selected.recipients[si].email, result))
      ]_vars

\* A single send has been reported after the start of a bulk send whose
\* worker is still between two recipients and whose events wait in the queue.
C11_Witness ==
    \E w \in Workers :
        /\ is_sending /\ progress_rx = w
        /\ worker[w].pc = "sleeping"
        /\ chan[w] # << >>
        /\ Len(status_log) = 2
        /\ IsStartLine(status_log[1])
        /\ IsSingleLine(status_log[2])

\* A thread that send_bulk has spawned and that has not ended yet
Running(w) == worker[w].pc \in {"connect", "connect_failed", "sending", "sleeping", "finish"}

\* C12: every bulk send that was started terminates: whatever the batch size
\* and the outcome of each recipient, a running thread eventually has sent
\* Done as its last event and has ended.
C12_BulkSendTerminates ==
    \A w \in Workers :
        Running(w) ~> (/\ Ended(w)
                       /\ Emitted(w) # << >>
                       /\ Emitted(w)[Len(Emitted(w))] = Done)

\* A send over the largest batch has ended with Done after every recipient
\* failed, the delays between them taken.
C12_Witness ==
    \E w \in Workers :
        /\ Ended(w) /\ Batch(w) = MaxBatch
        /\ Len(hist[w].delays) = MaxBatch - 1
        /\ \A k \in 1..MaxBatch : Emitted(w)[k].type = "Failed"
        /\ Emitted(w)[MaxBatch + 1] = Done

\* The pattern occurs in the text
Occurs(pat, s) ==
    \E k \in 1..(Len(s) - Len(pat) + 1) : SubSeq(s, k, k + Len(pat) - 1) = pat

Returned(fn) == call.fn = fn /\ ret.returned

\* The `{key}` token of a key, as the texts spell it
Token(key) == <<"{">> \o key \o <<"}">>

\* C13 (as claimed): render_text does not reprocess what it substituted: an
\* entry whose `{key}` token does not occur in the original text but occurs in
\* the value substituted for another token has no effect on the result, which
\* is what it would be without that entry.
C13_NoReprocessing ==
    Returned("render_text") =>
        LET text == call.text
            args == call.recipient.args
        IN  \A j \in 1..Len(args) :
              (/\ ~Occurs(Token(args[j][1]), text)
               /\ \E i \in 1..Len(args) :
                    /\ i # j
                    /\ Occurs(Token(args[i][1]), text)
                    /\ Occurs(Token(args[j][1]), args[i][2]))
              => ret.value = render_text(text, [call.recipient EXCEPT
                                                  !.args = RemoveAt(args, j - 1)])

\* C14: when no `{key}` with a key of args occurs in the text, render_text
\* returns the text as it is: a text without `{`, an empty map, keys that
\* match no placeholder; the placeholders of the text stay verbatim.
C14_UnchangedWithoutMatch ==
    Returned("render_text") =>
        LET text == call.text
            args == call.recipient.args
        IN  (\A j \in 1..Len(args) : ~Occurs(Token(args[j][1]), text))
                => ret.value = text

\* `{b}` was rendered with a map that only has the key a, and came back as is.
C14_Witness ==
    /\ Returned("render_text")
    /\ call.text = <<"{", "b", "}">>
    /\ Len(call.recipient.args) = 1
    /\ call.recipient.args[1][1] = <<"a">>
    /\ ret.value = <<"{", "b", "}">>

\* The text extract_placeholders scans: subject, a space, body
Combined(c) == c.subject \o <<" ">> \o c.body

\* The first `{` at or after position p (0: none) and the first `}` after
\* position p (Len(s) + 1: none)
OpenFrom(s, p) ==
    LET opens == {q \in p..Len(s) : s[q] = "{"}
    IN  IF opens = {} THEN 0 ELSE CHOOSE q \in opens : \A o \in opens : q <= o
CloseAfter(s, p) ==
    LET closes == {q \in (p + 1)..Len(s) : s[q] = "}"}
    IN  IF closes = {} THEN Len(s) + 1 ELSE CHOOSE q \in closes : \A c \in closes : q <= c

\* The `{...}` spans of s from position p on, left to right, none inside
\* another: each with the positions of its braces and the key between them
RECURSIVE SpansFrom(_, _)
SpansFrom(s, p) ==
    LET open == OpenFrom(s, p)
    IN  IF open = 0 THEN << >>
        ELSE LET close == CloseAfter(s, open)
             IN  << [open |-> open, close |-> close,
                     key |-> SubSeq(s, open + 1, close - 1)] >>
                 \o SpansFrom(s, close + 1)

Spans(s) == SpansFrom(s, 1)
Terminated(s, span) == span.close <= Len(s)

\* The first span of s that holds the key
FirstSpan(s, key) ==
    CHOOSE j \in 1..Len(Spans(s)) :
        /\ Spans(s)[j].key = key
        /\ \A k \in 1..(j - 1) : Spans(s)[k].key # key

\* C15: extract_placeholders returns the keys of the `{...}` spans of
\* subject-then-body, each distinct key once, never the empty key of `{}`, in
\* the order in which the keys first occur; every non-empty key of a closed
\* span is among them.
C15_DistinctKeysInOrder ==
    Returned("extract_placeholders") =>
        LET s == Combined(call)
            r == ret.value
        IN  /\ \A j, k \in 1..Len(r) : j # k => r[j] # r[k]
            /\ \A j \in 1..Len(r) : r[j] # << >>
            /\ \A j \in 1..Len(r) : \E k \in 1..Len(Spans(s)) : Spans(s)[k].key = r[j]
            /\ \A j, k \in 1..Len(r) : j < k => FirstSpan(s, r[j]) < FirstSpan(s, r[k])
            /\ \A k \in 1..Len(Spans(s)) :
                  (Terminated(s, Spans(s)[k]) /\ Spans(s)[k].key # << >>)
                      => \E j \in 1..Len(r) : r[j] = Spans(s)[k].key

\* Subject and body both hold `{b}`, and b was returned once.
C15_Witness ==
    /\ Returned("extract_placeholders")
    /\ call.subject = <<"{", "b", "}">>
    /\ call.body = <<"{", "b", "}">>
    /\ ret.value = << <<"b">> >>

\* C16 (as claimed): a `{` with no `}` after it yields no placeholder: the
\* text from it to the end of the input is not among the keys returned.
C16_UnterminatedYieldsNothing ==
    Returned("extract_placeholders") =>
        LET s == Combined(call)
        IN  \A k \in 1..Len(Spans(s)) :
              ~Terminated(s, Spans(s)[k])
                  => \A j \in 1..Len(ret.value) : ret.value[j] # Spans(s)[k].key

\* Position p of s lies in a tag span: from a `<` to the next `>`, both
\* included, or to the end of s when no `>` follows
InSpan(s, p) ==
    \E q \in 1..p : s[q] = "<" /\ \A m \in (q + 1)..(p - 1) : s[m] # ">"

\* s without the characters of its tag spans
RECURSIVE OutsideSpans(_, _)
OutsideSpans(s, p) ==
    IF p > Len(s) THEN << >>
    ELSE (IF InSpan(s, p) THEN << >> ELSE <<s[p]>>) \o OutsideSpans(s, p + 1)

\* C17 (as claimed): strip_html_tags removes exactly the tag spans, keeping
\* every character outside them in order, and a text wrapped in a pair of tags
\* comes back as it was.
C17_StripsExactlyTagSpans ==
    Returned("strip_html_tags") =>
        /\ ret.value = OutsideSpans(call.html, 1)
        /\ \A t \in Htmls : call.html = Wrap(t) => ret.value = t

\* The part of an attachment is a file part, not the alternative part
FilesOf(parts) == [k \in 1..Len(parts) |-> parts[k].file]

\* C18: whether its attachments can be read never decides if a message
\* builds: build_message succeeds exactly when the addresses parse; with no
\* attachment path the body is the alternative part, otherwise a mixed part
\* of the alternative part followed by one part per readable path, in the
\* order of attachment_paths, the unreadable paths left out.
C18_UnreadableAttachmentsSkipped ==
    Returned("build_message") =>
        LET paths == call.attachment_paths
            built == ret.value
        IN  /\ built.ok <=> (AddressParses(call.cfg.username) /\ AddressParses(call.email))
            /\ built.ok =>
                 IF paths = << >>
                 THEN /\ built.message.body.kind = "alternative"
                      /\ Len(built.message.body.parts) = 2
                 ELSE /\ built.message.body.kind = "mixed"
                      /\ built.message.body.parts[1].kind = "alternative"
                      /\ FilesOf(Tail(built.message.body.parts))
                            = SelectSeq(paths, LAMBDA f : f \in call.fs)

\* Of two attachments the first could not be read: the message was built
\* with the alternative part and the second file only.
C18_Witness ==
    /\ Returned("build_message")
    /\ call.attachment_paths = << <<"docs", "cv.pdf">>, <<"tmp", "notes.txt">> >>
    /\ call.fs = { <<"tmp", "notes.txt">> }
    /\ ret.value.ok
    /\ Len(ret.value.message.body.parts) = 2
    /\ ret.value.message.body.parts[2].filename = "notes.txt"

\* The first address field that does not parse (the From mailbox embeds the
\* user name that is also the Reply-To address, so it fails first)
OffendingField(cfg, email) ==
    IF ~AddressParses(cfg.username) THEN "From"
    ELSE IF ~AddressParses(email) THEN "To"
    ELSE "none"

\* C19 (as claimed): the error of a build that failed on an address names the
\* offending field, so it tells the fields apart: no build that failed on
\* another field returns the same error.
C19_ErrorNamesField ==
    (Returned("build_message") /\ ~ret.value.ok) =>
        \A c \in BuildCalls :
            LET other == build_message(c.cfg, TemplateOf(c), Recipient(c.email, << >>), c.fs)
            IN  (~other.ok /\ other.error = ret.value.error)
                    => OffendingField(c.cfg, c.email)
                           = OffendingField(call.cfg, call.email)

\* The Receiver of the running thread w is gone
Dropped(w) == Running(w) /\ progress_rx # w

\* The step by which the Receiver of a running thread is dropped
DropStep(w) == Running(w) /\ progress_rx = w /\ progress_rx' # w

\* C20: dropping the Receiver does not stop the worker.  The drop leaves the
\* thread where it is; a thread without Receiver can always take its next
\* step; when it leaves the loop it has attempted every recipient in order
\* and has taken the delay after each but the last; and it ends.
C20_DroppedReceiverKeepsWorker ==
    /\ [][\A w \in Workers : DropStep(w) => (worker' = worker /\ hist' = hist)]_vars
    /\ [](\A w \in Workers : Dropped(w) => ENABLED WorkerStep)
    /\ [](\A w \in Workers :
            (Dropped(w) /\ worker[w].pc = "finish") =>
                /\ Len(hist[w].attempts) = Batch(w)
                /\ \A k \in 1..Batch(w) : hist[w].attempts[k].index = k - 1
                /\ hist[w].delays = [k \in 1..(Batch(w) - 1) |-> k - 1])
    /\ \A w \in Workers : Dropped(w) ~> (worker[w].pc = "idle")

\* The Receiver was dropped before any event was polled, and the thread has
\* gone through its three recipients and the two delays.
C20_Witness ==
    \E w \in Workers :
        /\ Dropped(w)
        /\ worker[w].pc = "finish"
        /\ Batch(w) = MaxBatch
        /\ Len(hist[w].attempts) = MaxBatch
        /\ Len(hist[w].delays) = MaxBatch - 1
        /\ Len(status_log) = 1

\* C21: in one bulk send create_transport succeeds at most once, before the
\* first recipient; every recipient is attempted with that transport, the
\* first one, whatever happened to the recipients before it; a thread in or
\* past the loop has made exactly one.
C21_OneTransportPerSend ==
    \A w \in Workers :
        /\ hist[w].transports <= 1
        /\ hist[w].attempts # << >> => hist[w].transports = 1
        /\ \A k \in 1..Len(hist[w].attempts) : hist[w].attempts[k].transport = 1
        /\ worker[w].pc \in {"sending", "sleeping", "finish"} => hist[w].transports = 1
        /\ worker[w].pc = "connect" => hist[w].transports = 0

\* The first two recipients failed at the transport and the third was sent,
\* all three with the one transport of the send.
C21_Witness ==
    \E w \in Workers :
        /\ Ended(w) /\ Batch(w) = 3 /\ hist[w].transports = 1
        /\ hist[w].attempts[1].handed /\ ~hist[w].attempts[1].sent
        /\ hist[w].attempts[2].handed /\ ~hist[w].attempts[2].sent
        /\ hist[w].attempts[3].sent
        /\ hist[w].attempts[3].transport = 1

\* Two orders of iteration of the same map
SameMap(m, n) ==
    /\ Len(m) = Len(n)
    /\ {m[k] : k \in 1..Len(m)} = {n[k] : k \in 1..Len(n)}

\* C22 (as claimed): the result of render_text depends on args as a mapping
\* only: iterating the same entries in any other order gives the same text.
C22_OrderIndependent ==
    Returned("render_text") =>
        \A m \in ArgMaps :
            SameMap(m, call.recipient.args)
                => render_text(call.text, [call.recipient EXCEPT !.args = m]) = ret.value

\* C23: is_sending is true exactly when progress_rx holds a Receiver: Send
\* All sets both, the poll that meets Done clears both, nothing else writes
\* either.
C23_SendingIffReceiver ==
    is_sending <=> progress_rx # None

\* A send was started and its Done polled: both are cleared again.
C23_Witness ==
    /\ ~is_sending
    /\ progress_rx = None
    /\ Len(status_log) >= 2
    /\ IsStartLine(status_log[1])
    /\ status_log[Len(status_log)].text = "Bulk send complete."

\* C24: the application does not stay in the sending state: whenever
\* is_sending is true, the thread of that send ends and a later poll meets
\* its Done and clears is_sending and progress_rx.
C24_SendingEventuallyEnds ==
    is_sending ~> (~is_sending /\ progress_rx = None)

\* The thread of a send ended on a transport failure with the user editing
\* meanwhile, and the poll that met its Done has cleared is_sending.
C24_Witness ==
    /\ ~is_sending
    /\ Len(status_log) = 3
    /\ IsStartLine(status_log[1])
    /\ "error" \in DOMAIN status_log[2]
    /\ status_log[2].email = "N/A"
    /\ status_log[3].text = "Bulk send complete."
    /\ inputs = MaxInputs


\* ---------------------------------------------------------------------
\* C25 (as claimed): the application never dispatches a bulk send for a
\* snapshot with zero recipients: whatever the user does between pressing
\* Send to All and pressing Send All, the snapshot handed to send_bulk has
\* at least one recipient.
C25_NeverDispatchesEmpty ==
    [][\A w \in Workers :
          (worker[w].pc = "idle" /\ worker'[w].pc # "idle")
              => Len(hist'[w].started.recipients) >= 1]_vars

\* ---------------------------------------------------------------------
\* C26 (as claimed): the template dispatched by Send All is the template
\* that was selected when Send to All Recipients was pressed, whatever
\* templates were selected, created or deleted while the confirmation was
\* open.
C26_DispatchesAskedTemplate ==
    [][\A w \in Workers :
          (worker[w].pc = "idle" /\ worker'[w].pc # "idle")
              => hist'[w].started.id = asked]_vars

\* ---------------------------------------------------------------------
\* C27: a bulk send over a snapshot without recipients whose transport was
\* created never enters the loop body: it attempts nothing, sleeps never,
\* puts nothing on the channel before Done and exactly Done once it has
\* ended.  The throttle test i < recipients.len() - 1 sits in the loop body,
\* so it is only ever evaluated with at least one recipient and an index
\* below the length: the subtraction cannot wrap.
C27_EmptyBatchOnlyDone ==
    \A w \in Workers :
        /\ worker[w].pc \in {"sending", "sleeping"}
               => /\ Batch(w) >= 1
                  /\ worker[w].i < Batch(w)
        /\ (Connected(w) /\ Batch(w) = 0)
               => /\ worker[w].pc \in {"finish", "exit"}
                  /\ hist[w].attempts = << >>
                  /\ hist[w].delays = << >>
                  /\ Emitted(w) = (IF Ended(w) THEN <<Done>> ELSE << >>)

\* An ended send over no recipients, transport created, with Done as its
\* only event
C27_Witness ==
    \E w \in Workers :
        /\ Ended(w)
        /\ Connected(w)
        /\ Batch(w) = 0
        /\ Emitted(w) = <<Done>>
        /\ hist[w].delays = << >>
        /\ hist[w].attempts = << >>

\* ---------------------------------------------------------------------
\* The ids of the templates of a list
IdsOf(list) == {list[k].id : k \in 1..Len(list)}

\* A step that deletes one template keeps the selection on the template it
\* was on, unless that template is the one deleted
C28_DeleteStep ==
    Len(templates') = Len(templates) - 1 =>
        \/ selected_template = None
        \/ Selected.id \notin IdsOf(templates')
        \/ /\ selected_template' # None
           /\ selected_template' >= 0
           /\ selected_template' < Len(templates')
           /\ templates'[selected_template' + 1].id = Selected.id

\* C28: whatever templates are created, selected and deleted,
\* selected_template is None or an index below templates.len(), and deleting
\* a template other than the selected one leaves the selection on the same
\* template as before.
C28_SelectionValid ==
    /\ [](\/ selected_template = None
          \/ (selected_template >= 0 /\ selected_template < Len(templates)))
    /\ [][C28_DeleteStep]_vars

\* Two templates created, the second selected, the first deleted: the
\* selection moved down to index 0 and is still on the second template
C28_Witness ==
    /\ inputs = 3
    /\ created = 2
    /\ Len(templates) = 1
    /\ templates[1].id = 2
    /\ selected_template = 0
=============================================================================
